---- MODULE Spec2Model ----
(***************************************************************************)
(* The SCION endhost daemon (endhost/sciond.py): three TTL-bounded segment *)
(* stores, the request coordinator that de-duplicates path lookups, the    *)
(* handlers of path replies and revocations, and get_paths.                *)
(*                                                                         *)
(* lib.requests.RequestHandler, lib.path_db.PathSegmentDB,                 *)
(* lib.crypto.hash_chain.HashChain and lib.packet.path.PathCombinator are  *)
(* imported by sciond.py; their definitions here follow the design         *)
(* document (sections 4.1 - 4.4).                                          *)
(***************************************************************************)
EXTENDS Integers, Sequences, FiniteSets, TLC

\* ------------------------------------------------------------------ bounds
\* Number of threads that call get_paths (one call each).
NCallers == 2
\* Number of path replies the path server sends.
MaxReplies == 2
\* Number of revocations received.
MaxRevs == 1
\* Number of times the clock advances.
MaxTicks == 2
\* Number of path request datagrams the local API receives.
NWorkers == 1
\* Local API datagrams other than path requests.
MaxDgrams == 1

\* ------------------------------------------------------- program constants
TIMEOUT == 5
N_TOKENS_CHECK == 20
SEGMENT_TTL == 300
\* lib.defines.SCION_UDP_PORT.
SCION_UDP_PORT == 30040

\* The steps by which the clock advances: a whole deadline, a whole segment
\* lifetime.
TickSteps == {TIMEOUT, SEGMENT_TTL}

\* --------------------------------------------------------------- topology
\* (ISD, AD) of this endhost: self.addr.get_isd_ad().
Local == <<1, 10>>
\* Destinations a caller may ask for: the local AD, a remote ISD, the own ISD.
Dests == {<<1, 10>>, <<2, 20>>, <<1, 20>>}
\* The destinations of the concurrent lookups.
LookupDests == {<<1, 10>>, <<2, 20>>}

UP == "UP"
DOWN == "DOWN"
CORE == "CORE"
UP_DOWN == "UP_DOWN"
\* A seg_type outside PathSegmentType.
BAD == "BAD"
SegTypes == {UP, DOWN, CORE, UP_DOWN, BAD}

\* The path segments the path server may hand out.  first/last are the
\* (ISD, AD) of the first and the last PCB marking, mid the ADs in between,
\* toks the interface tokens (positions on the hash chain).
PCB ==
    1 :> [first |-> <<1, 1>>, last |-> <<1, 10>>, mid |-> {<<1, 5>>}, toks |-> {30}]
 @@ 2 :> [first |-> <<1, 2>>, last |-> <<1, 10>>, mid |-> {<<1, 6>>}, toks |-> {30, 60}]
 @@ 3 :> [first |-> <<2, 1>>, last |-> <<2, 20>>, mid |-> {<<2, 5>>}, toks |-> {60}]
 @@ 4 :> [first |-> <<1, 1>>, last |-> <<1, 20>>, mid |-> {<<1, 5>>}, toks |-> {90}]
 @@ 5 :> [first |-> <<2, 1>>, last |-> <<1, 1>>, mid |-> {}, toks |-> {90}]
PcbIds == DOMAIN PCB

Callers == 1..NCallers
\* The threads among them that the local API starts.
ApiWorkers == 1..NWorkers

\* A request key: (segment class, src_isd, src_ad, dst_isd, dst_ad).
MkKey(t, src, dst) == <<t, src[1], src[2], dst[1], dst[2]>>
KeySrc(k) == <<k[2], k[3]>>
KeyDst(k) == <<k[4], k[5]>>

\* A path reply: its info and its list of PCBs.
Reply(t, src, dst, pcbs) == [info |-> MkKey(t, src, dst), pcbs |-> pcbs]

\* The path replies the path server may send: answers to the keys get_paths
\* asks for, with and without segments, and replies of every seg_type that
\* carry segments of both kinds.
Replies ==
    {Reply(UP_DOWN, Local, <<2, 20>>, <<1, 2, 3>>),
     Reply(UP_DOWN, Local, <<2, 20>>, <<>>),
     Reply(UP_DOWN, Local, <<1, 20>>, <<1, 4>>),
     Reply(CORE, <<1, 1>>, <<2, 1>>, <<5>>),
     Reply(CORE, <<1, 2>>, <<2, 1>>, <<>>),
     Reply(UP, Local, <<2, 20>>, <<1, 3>>),
     Reply(DOWN, Local, <<2, 20>>, <<1, 3>>),
     Reply(BAD, Local, <<2, 20>>, <<1, 3>>)}

\* The replies that answer, or could answer, a lookup.
LookupReplies ==
    {Reply(UP_DOWN, Local, <<2, 20>>, <<1, 2, 3>>),
     Reply(UP_DOWN, Local, <<2, 20>>, <<>>),
     Reply(CORE, <<1, 1>>, <<2, 1>>, <<5>>),
     Reply(UP, Local, <<2, 20>>, <<1, 3>>),
     Reply(DOWN, Local, <<2, 20>>, <<1, 3>>)}

\* Wake handles (threading.Event): one per caller and wait.
NoHandle == <<0, <<0, 0>>>>
UdHandle(c) == <<c, <<0, 0>>>>
CoreHandle(c, pair) == <<c, pair>>

VARIABLES
    now,        \* SCIONTime.get_time()
    ticks,      \* how often the clock advanced
    up,         \* self.up_segments:   set of <<hops_hash, insertion_time>>
    down,       \* self.down_segments
    core,       \* self.core_segments
    queue,      \* self.requests: the coordinator's input queue
    pending,    \* the coordinator's pending table: set of entries
    signals,    \* per wake handle, how often it was set
    sent,       \* per key, the PathRequests sent to the path server
    topoHasPS,  \* whether dns_query_topo(PATH_SERVICE) finds a path server
    call,       \* per caller, the state of its get_paths call
    daemon,     \* the daemon thread: idle, or inside handle_path_reply
    replies,    \* path replies handled so far
    revs,       \* revocations handled so far
    deletions,  \* the number of deletions the last revocation reported
    api         \* the local API socket, as the daemon thread uses it

vars == <<now, ticks, up, down, core, queue, pending, signals, sent,
          topoHasPS, call, daemon, replies, revs, deletions, api>>

\* ------------------------------------------------------------- helpers
Count(f, x) == IF x \in DOMAIN f THEN f[x] ELSE 0
Bump(f, x) == IF x \in DOMAIN f THEN [f EXCEPT ![x] = @ + 1] ELSE f @@ (x :> 1)

RECURSIVE SeqOfSet(_)
\* The elements of a set of numbers, in increasing order.
SeqOfSet(S) ==
    IF S = {} THEN <<>>
    ELSE LET m == CHOOSE x \in S : \A y \in S : x <= y
         IN <<m>> \o SeqOfSet(S \ {m})

RECURSIVE Flatten(_)
Flatten(ss) == IF ss = <<>> THEN <<>> ELSE Head(ss) \o Flatten(Tail(ss))

PairSeq(xs, ys) ==
    Flatten([i \in 1..Len(xs) |-> [j \in 1..Len(ys) |-> <<xs[i], ys[j]>>]])

Range(s) == {s[i] : i \in DOMAIN s}

\* ------------------------------------------------ hash chain (section 4.1)
\* One application of the hash function: the next position on the chain.
Hash(x) == x + 1

\* Faulty variant: one iteration more than asked for.
HashVerifyOneMore(start, target, n) == target - start \in 1..(n + 1)

RECURSIVE HashVerify(_, _, _)
\* HashChain.verify(start, target, n): hash start up to n times; true iff
\* one of the iterates is target.
HashVerify(start, target, n) ==
    IF n = 0 THEN FALSE
    ELSE \/ Hash(start) = target
         \/ HashVerify(Hash(start), target, n - 1)

\* --------------------------------------------- segment store (section 4.2)
\* A store is a set of <<hops_hash, insertion_time>>.
StoreIds(store) == {e[1] : e \in store}

\* Faulty variant: nothing expires.
LiveForever(store, t) == store

\* Lazy expiry: what a query or an iteration leaves in the store at time t.
Live(store, t) == {e \in store : t - e[2] <= SEGMENT_TTL}

\* Faulty variant: the entry of an earlier insertion is kept.
StoreUpdateKeepOld(store, id, t) == store \cup {<<id, t>>}

\* update(): insert, or refresh the insertion time of the same hops_hash.
StoreUpdate(store, id, t) == {e \in store : e[1] # id} \cup {<<id, t>>}

\* An omitted filter.
AnyAd == <<0, 0>>
Matches(id, first, last) ==
    /\ first = AnyAd \/ PCB[id].first = first
    /\ last = AnyAd \/ PCB[id].last = last

\* query(): the non-expired segments matching every supplied filter.
StoreQuery(store, t, first, last) ==
    {id \in StoreIds(Live(store, t)) : Matches(id, first, last)}

\* Faulty variant: nothing is removed.
StoreDeleteNone(store, ids) == store

\* delete_all(): remove by identity.
StoreDeleteAll(store, ids) == {e \in store : e[1] \notin ids}
DeleteCount(store, ids) == Cardinality(StoreIds(store) \cap ids)

\* ------------------------------------------- path combinator (section 4.4)
EmptyPath == [kind |-> "empty", up |-> 0, core |-> 0, down |-> 0]

\* Shortcut paths: every (u, d) whose hop lists share an AS.
BuildShortcutPaths(ups, downs) ==
    LET pairs == SelectSeq(PairSeq(SeqOfSet(ups), SeqOfSet(downs)),
                     LAMBDA p : PCB[p[1]].mid \cap PCB[p[2]].mid # {})
    IN [k \in 1..Len(pairs) |->
           [kind |-> "shortcut", up |-> pairs[k][1], core |-> 0,
            down |-> pairs[k][2]]]

\* Core paths of one (u, d): one per core segment joining u's first hop to
\* d's first hop; the direct composition when they share the core AD.
BuildCorePaths(u, d, cores) ==
    LET direct ==
            IF PCB[u].first = PCB[d].first
            THEN <<[kind |-> "core", up |-> u, core |-> 0, down |-> d]>>
            ELSE <<>>
        joining == SelectSeq(SeqOfSet(cores),
                       LAMBDA c : /\ PCB[c].last = PCB[u].first
                                  /\ PCB[c].first = PCB[d].first)
    IN direct \o [k \in 1..Len(joining) |->
                     [kind |-> "core", up |-> u, core |-> joining[k],
                      down |-> d]]

\* ------------------------------------------------ daemon core: path replies
\* The three stores as one value.
Stores(u, d, c) == [up |-> u, down |-> d, core |-> c]

\* Faulty variant: the UP classifier stores every segment.
HandleUpSegNoCheck(store, id, t) == StoreUpdate(store, id, t)

\* _handle_up_seg: only a segment that ends at the local AD is stored.
HandleUpSeg(store, id, t) ==
    IF Local # PCB[id].last THEN store ELSE StoreUpdate(store, id, t)

\* Faulty variant: the DOWN classifier stores every segment.
HandleDownSegNoCheck(store, id, t) == StoreUpdate(store, id, t)

\* _handle_down_seg: only a segment that does not end at the local AD.
HandleDownSeg(store, id, t) ==
    IF Local = PCB[id].last THEN store ELSE StoreUpdate(store, id, t)

\* _handle_core_seg: stored unconditionally.
HandleCoreSeg(store, id, t) == StoreUpdate(store, id, t)

\* Faulty variant: a PCB of an unknown seg_type is stored as core segment.
RoutePcbUnknownAsCore(st, segType, id, t) ==
    CASE segType = UP_DOWN ->
            [st EXCEPT !.up = HandleUpSeg(@, id, t),
                       !.down = HandleDownSeg(@, id, t)]
      [] segType = UP -> [st EXCEPT !.up = HandleUpSeg(@, id, t)]
      [] segType = DOWN -> [st EXCEPT !.down = HandleDownSeg(@, id, t)]
      [] OTHER -> [st EXCEPT !.core = HandleCoreSeg(@, id, t)]

\* Faulty variant: a PCB of an UP_DOWN reply goes to the UP classifier only.
RoutePcbUpDownAsUp(st, segType, id, t) ==
    CASE segType = UP_DOWN -> [st EXCEPT !.up = HandleUpSeg(@, id, t)]
      [] segType = UP -> [st EXCEPT !.up = HandleUpSeg(@, id, t)]
      [] segType = DOWN -> [st EXCEPT !.down = HandleDownSeg(@, id, t)]
      [] segType = CORE -> [st EXCEPT !.core = HandleCoreSeg(@, id, t)]
      [] OTHER -> st

\* One iteration of the loop of handle_path_reply.
RoutePcb(st, segType, id, t) ==
    CASE segType = UP_DOWN ->
            [st EXCEPT !.up = HandleUpSeg(@, id, t),
                       !.down = HandleDownSeg(@, id, t)]
      [] segType = UP -> [st EXCEPT !.up = HandleUpSeg(@, id, t)]
      [] segType = DOWN -> [st EXCEPT !.down = HandleDownSeg(@, id, t)]
      [] segType = CORE -> [st EXCEPT !.core = HandleCoreSeg(@, id, t)]
      [] OTHER -> st

RECURSIVE RoutePcbs(_, _, _, _)
\* The loop of handle_path_reply over path_reply.pcbs.
RoutePcbs(st, segType, pcbs, t) ==
    IF pcbs = <<>> THEN st
    ELSE RoutePcbs(RoutePcb(st, segType, Head(pcbs), t), segType, Tail(pcbs), t)

\* ------------------------------------------ daemon core: coordinator hooks
\* Faulty variant: the stores are never found to answer a key.
CheckSegmentsNever(key, st, t) == FALSE

\* Faulty variant: the check of a CORE key asks the CORE store with first
\* and last hop exchanged.
CheckSegmentsCoreSwapped(key, st, t) ==
    LET ptype == key[1]
    IN CASE ptype = UP -> StoreQuery(st.up, t, AnyAd, AnyAd) # {}
         [] ptype = DOWN -> StoreQuery(st.down, t, AnyAd, KeyDst(key)) # {}
         [] ptype = CORE ->
                StoreQuery(st.core, t, KeySrc(key), KeyDst(key)) # {}
         [] ptype = UP_DOWN ->
                /\ StoreQuery(st.up, t, AnyAd, AnyAd) # {}
                /\ StoreQuery(st.down, t, AnyAd, KeyDst(key)) # {}
         [] OTHER -> FALSE

\* _check_segments: whether the stores can already answer the key.
CheckSegments(key, st, t) ==
    LET ptype == key[1]
    IN CASE ptype = UP -> StoreQuery(st.up, t, AnyAd, AnyAd) # {}
         [] ptype = DOWN -> StoreQuery(st.down, t, AnyAd, KeyDst(key)) # {}
         [] ptype = CORE ->
                StoreQuery(st.core, t, KeyDst(key), KeySrc(key)) # {}
         [] ptype = UP_DOWN ->
                /\ StoreQuery(st.up, t, AnyAd, AnyAd) # {}
                /\ StoreQuery(st.down, t, AnyAd, KeyDst(key)) # {}
         [] OTHER -> FALSE

\* The stores after _check_segments: each store it queried dropped its
\* expired entries.
CheckStores(key, st, t) ==
    LET ptype == key[1]
    IN CASE ptype = UP -> [st EXCEPT !.up = Live(@, t)]
         [] ptype = DOWN -> [st EXCEPT !.down = Live(@, t)]
         [] ptype = CORE -> [st EXCEPT !.core = Live(@, t)]
         [] ptype = UP_DOWN ->
                IF StoreQuery(st.up, t, AnyAd, AnyAd) = {}
                THEN [st EXCEPT !.up = Live(@, t)]
                ELSE [st EXCEPT !.up = Live(@, t), !.down = Live(@, t)]
         [] OTHER -> st

\* Faulty variant: a key that was requested once is not requested again.
FetchSegmentsOnce(key, snt, hasPS) ==
    IF hasPS /\ Count(snt, key) = 0 THEN Bump(snt, key) ELSE snt

\* Faulty variant: the PathRequest is sent without a path server.
FetchSegmentsNoLookup(key, snt, hasPS) == Bump(snt, key)

\* _fetch_segments: one PathRequest to the path server, none when the
\* lookup of the path server fails.
FetchSegments(key, snt, hasPS) == IF hasPS THEN Bump(snt, key) ELSE snt

\* Faulty variant: the event is not set.
ReplySegmentsNoSet(sig, h) == sig

\* _reply_segments: e.set().
ReplySegments(sig, h) == Bump(sig, h)

RECURSIVE ReplyAll(_, _)
ReplyAll(sig, hs) ==
    IF hs = <<>> THEN sig ELSE ReplyAll(ReplySegments(sig, Head(hs)), Tail(hs))

\* ------------------------------------- request coordinator (section 4.3)
\* A pending entry: the key, the wake handles attached, the eviction time.
Entry(key, hs, dl) == [key |-> key, waiters |-> hs, deadline |-> dl]
EntriesOf(tab, key) == {e \in tab : e.key = key}

\* Eviction at the deadline: waiters are dropped without being signalled.
Unexpired(tab, t) == {e \in tab : t < e.deadline}

\* Faulty variant: every wait submission creates an entry.
AttachAlwaysNew(tab, key, h, t) == tab \cup {Entry(key, <<h>>, t + TIMEOUT)}

\* A wait submission (key, handle): attach to the key's entry, or create it.
Attach(tab, key, h, t) ==
    IF EntriesOf(tab, key) # {}
    THEN {IF e.key = key THEN [e EXCEPT !.waiters = Append(@, h)] ELSE e :
             e \in tab}
    ELSE tab \cup {Entry(key, <<h>>, t + TIMEOUT)}

RECURSIVE AllWaiters(_)
AllWaiters(es) ==
    IF es = {} THEN <<>>
    ELSE LET e == CHOOSE x \in es : TRUE
         IN e.waiters \o AllWaiters(es \ {e})

\* Faulty variant: a fulfilment wakes the waiters of every key with the same
\* destination, whatever the class.
WaitersOfSameDst(tab, key) ==
    AllWaiters({e \in tab : KeyDst(e.key) = KeyDst(key)})

\* The handles a fulfilment of key wakes.
WaitersOf(tab, key) == AllWaiters(EntriesOf(tab, key))

\* A fulfilment of key: the entry is removed.
Fulfil(tab, key) == tab \ EntriesOf(tab, key)

\* A message of the coordinator's queue.
Msg(key, h) == [key |-> key, h |-> h]

\* ------------------------------------------- daemon core: core segments
\* Faulty variant: a pair of one and the same core AD is looked up too.
FindCoreSegsNoSkip(srcIsd, dstIsd, adPairs, coreStore, t) ==
    LET SegOf(p) == StoreQuery(coreStore, t, <<dstIsd, p[2]>>, <<srcIsd, p[1]>>)
    IN [segs |-> UNION {SegOf(p) : p \in adPairs},
        missing |-> {p \in adPairs : SegOf(p) = {}},
        queried |-> adPairs # {}]

\* _find_core_segs: the core segments joining the AD pairs, and the pairs
\* for which the CORE store has none.
FindCoreSegs(srcIsd, dstIsd, adPairs, coreStore, t) ==
    LET wanted == {p \in adPairs : <<srcIsd, p[1]>> # <<dstIsd, p[2]>>}
        SegOf(p) == StoreQuery(coreStore, t, <<dstIsd, p[2]>>, <<srcIsd, p[1]>>)
    IN [segs |-> UNION {SegOf(p) : p \in wanted},
        missing |-> {p \in wanted : SegOf(p) = {}},
        queried |-> wanted # {}]

\* _calc_core_segs: all pairs (first AD of an up segment, first AD of a
\* down segment).
CalcCoreSegs(dstIsd, ups, downs, coreStore, t) ==
    FindCoreSegs(Local[1], dstIsd,
                 {PCB[u].first[2] : u \in ups} \X {PCB[d].first[2] : d \in downs},
                 coreStore, t)

RECURSIVE SeqOfAny(_)
\* The elements of a set in some fixed order.
SeqOfAny(S) ==
    IF S = {} THEN <<>>
    ELSE LET m == CHOOSE x \in S : TRUE IN <<m>> \o SeqOfAny(S \ {m})

\* The puts of _get_core_segs: one CORE request per missing pair.
CoreRequests(c, dstIsd, missing) ==
    LET ps == SeqOfAny(missing)
    IN [k \in 1..Len(ps) |->
           Msg(MkKey(CORE, <<Local[1], ps[k][1]>>, <<dstIsd, ps[k][2]>>),
               CoreHandle(c, ps[k]))]

\* The ADs a path goes through, from the local AD to the destination: the
\* up segment from its last hop to its first, the core segment from the
\* core AD of the up segment to that of the down segment, the down segment
\* from its first hop to its last.  A shortcut path leaves the up segment
\* at the AD it shares with the down segment.
SegHops(id) == <<PCB[id].first>> \o SeqOfAny(PCB[id].mid) \o <<PCB[id].last>>
Reverse(s) == [k \in 1..Len(s) |-> s[Len(s) + 1 - k]]
Hops(path) ==
    CASE path.kind = "empty" -> <<>>
      [] path.kind = "shortcut" ->
             <<PCB[path.up].last>>
             \o SeqOfAny(PCB[path.up].mid \cap PCB[path.down].mid)
             \o <<PCB[path.down].last>>
      [] path.kind = "core" /\ path.core = 0 ->
             Reverse(SegHops(path.up)) \o Tail(SegHops(path.down))
      [] OTHER ->
             Reverse(SegHops(path.up))
             \o Tail(Reverse(SegHops(path.core)))
             \o Tail(SegHops(path.down))

\* Faulty variant: the shortcut paths are put on the list twice.
CombinePathsTwice(ups, downs, cores) ==
    LET pairs == PairSeq(SeqOfSet(ups), SeqOfSet(downs))
    IN BuildShortcutPaths(ups, downs)
       \o BuildShortcutPaths(ups, downs)
       \o Flatten([k \in 1..Len(pairs) |->
                      BuildCorePaths(pairs[k][1], pairs[k][2], cores)])

\* The end of get_paths: shortcut paths, then the core paths of every
\* (up, down) pair.
CombinePaths(ups, downs, cores) ==
    LET pairs == PairSeq(SeqOfSet(ups), SeqOfSet(downs))
    IN BuildShortcutPaths(ups, downs)
       \o Flatten([k \in 1..Len(pairs) |->
                      BuildCorePaths(pairs[k][1], pairs[k][2], cores)])

\* _remove_revoked_pcbs, the loops: the hops_hash of every segment of the
\* store with an interface token that rev_token is a preimage of.
ToRemove(store, revToken, t) ==
    {id \in StoreIds(Live(store, t)) :
        \E tk \in PCB[id].toks : HashVerify(revToken, tk, N_TOKENS_CHECK)}

\* _remove_revoked_pcbs as a whole: the store after db.delete_all(to_remove).
RemoveRevokedPcbs(store, revToken, t) ==
    StoreDeleteAll(Live(store, t), ToRemove(store, revToken, t))

\* Revocation tokens that arrive: the preimage of token 30, the element 20
\* places before it, the element 21 places before it, and its hash.
RevTokens == {29, 10, 9, 31}
\* The proof each of them comes with; the proof of 10 is no preimage of it.
RevProof == 29 :> 28 @@ 10 :> 50 @@ 9 :> 8 @@ 31 :> 30

\* The stores in the order handle_revocation goes through them.
RevOrder == <<"up", "core", "down">>

\* ------------------------------------------------------------ the state
\* The daemon thread (SCIONElement.run) handles one packet at a time.
DaemonIdle ==
    [pc |-> "idle", info |-> <<>>, pcbs |-> <<>>, tok |-> 0, proof |-> 0,
     stage |-> 0, scanned |-> FALSE, toRemove |-> {}, count |-> 0]
InReply(info, pcbs) ==
    [DaemonIdle EXCEPT !.pc = "reply", !.info = info, !.pcbs = pcbs]
\* Inside handle_revocation: the token and the proof of the revocation, the
\* store it is at, whether that store was scanned, the hops_hashes collected
\* and the deletions counted so far.
InRev(tok, proof, stage, scanned, toRemove, count) ==
    [DaemonIdle EXCEPT !.pc = "rev", !.tok = tok, !.proof = proof,
                       !.stage = stage, !.scanned = scanned,
                       !.toRemove = toRemove, !.count = count]

\* A thread that calls get_paths.  sender is the API client whose datagram
\* the thread handles, 0 for a direct call; responses and payload are the
\* datagrams sent back to that client and the content of the last one.
IdleCall ==
    [pc |-> "idle", dst |-> Local, deadline |-> 0, upS |-> {}, downS |-> {},
     coreS |-> {}, missing |-> {}, result |-> <<>>, sender |-> 0,
     responses |-> 0, payload |-> <<>>]

\* The local API socket: the byte order of the host the daemon runs on, which
\* struct.pack takes for a format without a byte-order character; the
\* datagrams the daemon thread has received on the socket that were not path
\* requests, and those it has sent itself.  Without the local API
\* (run_local_api false) nothing reads it.
ByteOrders == {"little", "big"}
ApiSock(bo) == [native |-> bo, received |-> 0, out |-> <<>>]

Done(cl, res) ==
    [cl EXCEPT !.pc = "done", !.upS = {}, !.downS = {}, !.coreS = {},
               !.missing = {}, !.result = res]

Init ==
    /\ now = 0
    /\ ticks = 0
    /\ up = {}
    /\ down = {}
    /\ core = {}
    /\ queue = <<>>
    /\ pending = {}
    /\ signals = <<>>
    /\ sent = <<>>
    /\ topoHasPS \in BOOLEAN
    /\ call = [c \in Callers |-> IdleCall]
    /\ daemon = DaemonIdle
    /\ replies = 0
    /\ revs = 0
    /\ deletions = 0
    /\ api = ApiSock("little")

\* -------------------------------------------------------------- actions
\* A caller blocked in a wait.
Waiting(c) == call[c].pc \in {"wait_ud", "wait_core"}

\* An API worker between the return of get_paths and its send.
Sending(c) == call[c].pc = "done" /\ call[c].sender # 0

\* The clock advances.  A wait returns no later than its deadline, so the
\* clock does not pass the deadline of a caller that is still in its wait;
\* a handler of the daemon thread does not block, so the clock does not
\* advance inside it, nor while an API worker packs its response.
Tick(d) ==
    /\ ticks < MaxTicks
    /\ daemon = DaemonIdle
    /\ \A c \in Callers : Waiting(c) => now + d <= call[c].deadline
    /\ \A c \in Callers : ~Sending(c)
    /\ ticks' = ticks + 1
    /\ now' = now + d
    /\ UNCHANGED <<up, down, core, queue, pending, signals, sent, topoHasPS,
                   call, daemon, replies, revs, deletions, api>>

\* Faulty variant: the key is fulfilled before the PCBs are stored.
HandlePathReplyPutFirst(info, pcbs) ==
    /\ daemon = DaemonIdle
    /\ replies < MaxReplies
    /\ replies' = replies + 1
    /\ queue' = Append(queue, Msg(info, NoHandle))
    /\ daemon' = InReply(info, pcbs)
    /\ UNCHANGED <<now, ticks, up, down, core, pending, signals, sent,
                   topoHasPS, call, revs, deletions, api>>

\* Faulty variant: path replies are handled by a thread of their own, at any
\* point of a revocation.
HandlePathReplyAnyTime(info, pcbs) ==
    /\ replies < MaxReplies
    /\ replies' = replies + 1
    /\ LET st == RoutePcbs(Stores(up, down, core), info[1], pcbs, now)
       IN /\ up' = st.up
          /\ down' = st.down
          /\ core' = st.core
    /\ daemon' = InReply(info, pcbs)
    /\ UNCHANGED <<now, ticks, queue, pending, signals, sent, topoHasPS, call,
                   revs, deletions, api>>

\* Faulty variant: a reply nobody waits for any more is dropped.
HandlePathReplyDropsLate(info, pcbs) ==
    /\ daemon = DaemonIdle
    /\ replies < MaxReplies
    /\ replies' = replies + 1
    /\ LET st == IF EntriesOf(Unexpired(pending, now), info) = {}
                 THEN Stores(up, down, core)
                 ELSE RoutePcbs(Stores(up, down, core), info[1], pcbs, now)
       IN /\ up' = st.up
          /\ down' = st.down
          /\ core' = st.core
    /\ daemon' = InReply(info, pcbs)
    /\ UNCHANGED <<now, ticks, queue, pending, signals, sent, topoHasPS, call,
                   revs, deletions, api>>

\* handle_path_reply, the loop: every PCB of the reply goes through the
\* classifier of the reply's seg_type.
HandlePathReply(info, pcbs) ==
    /\ daemon = DaemonIdle
    /\ replies < MaxReplies
    /\ replies' = replies + 1
    /\ LET st == RoutePcbs(Stores(up, down, core), info[1], pcbs, now)
       IN /\ up' = st.up
          /\ down' = st.down
          /\ core' = st.core
    /\ daemon' = InReply(info, pcbs)
    /\ UNCHANGED <<now, ticks, queue, pending, signals, sent, topoHasPS, call,
                   revs, deletions, api>>

\* handle_path_reply, after the loop: the key of the reply is fulfilled.
HandlePathReplyPut ==
    /\ daemon.pc = "reply"
    /\ queue' = Append(queue, Msg(daemon.info, NoHandle))
    /\ daemon' = DaemonIdle
    /\ UNCHANGED <<now, ticks, up, down, core, pending, signals, sent,
                   topoHasPS, call, replies, revs, deletions, api>>

\* handle_revocation, to the scan of the UP store.  The proof is not looked
\* at: the verification of the revocation is commented out.
HandleRevocation(revToken, proof) ==
    /\ daemon = DaemonIdle
    /\ revs < MaxRevs
    /\ revs' = revs + 1
    /\ up' = Live(up, now)
    /\ daemon' = InRev(revToken, proof, 1, TRUE, ToRemove(up, revToken, now), 0)
    /\ UNCHANGED <<now, ticks, down, core, queue, pending, signals, sent,
                   topoHasPS, call, replies, deletions, api>>

\* _remove_revoked_pcbs, the loops over the next store.
RevScan ==
    /\ daemon.pc = "rev"
    /\ ~daemon.scanned
    /\ LET st == Stores(up, down, core)
           name == RevOrder[daemon.stage]
       IN /\ up' = IF name = "up" THEN Live(up, now) ELSE up
          /\ core' = IF name = "core" THEN Live(core, now) ELSE core
          /\ down' = IF name = "down" THEN Live(down, now) ELSE down
          /\ daemon' = [daemon EXCEPT
                           !.scanned = TRUE,
                           !.toRemove = ToRemove(st[name], daemon.tok, now)]
    /\ UNCHANGED <<now, ticks, queue, pending, signals, sent, topoHasPS, call,
                   replies, revs, deletions, api>>

\* _remove_revoked_pcbs, db.delete_all(to_remove) on the store scanned; after
\* the DOWN store handle_revocation reports the deletions and returns.
RevDelete ==
    /\ daemon.pc = "rev"
    /\ daemon.scanned
    /\ LET st == Stores(up, down, core)
           name == RevOrder[daemon.stage]
           n == daemon.count + DeleteCount(st[name], daemon.toRemove)
       IN /\ up' = IF name = "up" THEN StoreDeleteAll(up, daemon.toRemove)
                   ELSE up
          /\ core' = IF name = "core"
                     THEN StoreDeleteAll(core, daemon.toRemove) ELSE core
          /\ down' = IF name = "down"
                     THEN StoreDeleteAll(down, daemon.toRemove) ELSE down
          /\ IF daemon.stage < Len(RevOrder)
             THEN /\ daemon' = InRev(daemon.tok, daemon.proof,
                                     daemon.stage + 1, FALSE, {}, n)
                  /\ deletions' = deletions
             ELSE /\ daemon' = DaemonIdle
                  /\ deletions' = n
    /\ UNCHANGED <<now, ticks, queue, pending, signals, sent, topoHasPS, call,
                   replies, revs, api>>

\* Faulty variant: the coordinator asks check for every wait submission,
\* also for a key that has an entry.
CoordWaitChecksAlways ==
    /\ queue # <<>>
    /\ Head(queue).h # NoHandle
    /\ LET key == Head(queue).key
           h == Head(queue).h
           tab == Unexpired(pending, now)
           st == Stores(up, down, core)
       IN /\ up' = CheckStores(key, st, now).up
          /\ down' = CheckStores(key, st, now).down
          /\ core' = CheckStores(key, st, now).core
          /\ IF CheckSegments(key, st, now)
             THEN /\ signals' = ReplyAll(signals, <<h>>)
                  /\ pending' = tab
                  /\ sent' = sent
             ELSE /\ pending' = Attach(tab, key, h, now)
                  /\ sent' = IF EntriesOf(tab, key) # {} THEN sent
                             ELSE FetchSegments(key, sent, topoHasPS)
                  /\ signals' = signals
    /\ queue' = Tail(queue)
    /\ UNCHANGED <<now, ticks, topoHasPS, call, daemon, replies, revs,
                   deletions, api>>

\* The coordinator takes a wait submission (key, handle) from its queue:
\* it attaches the handle to the key's entry; for a key without entry it
\* asks check and either wakes the handle at once or creates the entry and
\* fetches.
CoordWait ==
    /\ queue # <<>>
    /\ Head(queue).h # NoHandle
    /\ LET key == Head(queue).key
           h == Head(queue).h
           tab == Unexpired(pending, now)
           st == Stores(up, down, core)
       IN IF EntriesOf(tab, key) # {}
          THEN /\ pending' = Attach(tab, key, h, now)
               /\ UNCHANGED <<up, down, core, signals, sent>>
          ELSE /\ up' = CheckStores(key, st, now).up
               /\ down' = CheckStores(key, st, now).down
               /\ core' = CheckStores(key, st, now).core
               /\ IF CheckSegments(key, st, now)
                  THEN /\ signals' = ReplyAll(signals, <<h>>)
                       /\ pending' = tab
                       /\ sent' = sent
                  ELSE /\ pending' = Attach(tab, key, h, now)
                       /\ sent' = FetchSegments(key, sent, topoHasPS)
                       /\ signals' = signals
    /\ queue' = Tail(queue)
    /\ UNCHANGED <<now, ticks, topoHasPS, call, daemon, replies, revs, deletions, api>>

\* The coordinator takes a fulfilment (key, None) from its queue: every
\* handle attached to the key is woken and the entry is removed.
CoordFulfil ==
    /\ queue # <<>>
    /\ Head(queue).h = NoHandle
    /\ LET key == Head(queue).key
           tab == Unexpired(pending, now)
       IN /\ signals' = ReplyAll(signals, WaitersOf(tab, key))
          /\ pending' = Fulfil(tab, key)
    /\ queue' = Tail(queue)
    /\ UNCHANGED <<now, ticks, up, down, core, sent, topoHasPS, call, daemon,
                   replies, revs, deletions, api>>

\* The coordinator evicts the entries whose deadline has passed.
CoordExpire ==
    /\ Unexpired(pending, now) # pending
    /\ pending' = Unexpired(pending, now)
    /\ UNCHANGED <<now, ticks, up, down, core, queue, signals, sent,
                   topoHasPS, call, daemon, replies, revs, deletions, api>>

\* Faulty variant: get_paths sends the PathRequest itself, and submits.
GetPathsAlsoFetches(c, dst) ==
    /\ call[c].pc = "idle"
    /\ \A c2 \in Callers : c2 < c => call[c2].pc # "idle"
    /\ IF Local = dst
       THEN /\ call' = [call EXCEPT ![c] = Done([@ EXCEPT !.dst = dst],
                                                <<EmptyPath>>)]
            /\ UNCHANGED <<queue, sent>>
       ELSE /\ call' = [call EXCEPT ![c] =
                          [@ EXCEPT !.pc = "wait_ud", !.dst = dst,
                                    !.deadline = now + TIMEOUT]]
            /\ queue' = Append(queue, Msg(MkKey(UP_DOWN, Local, dst),
                                          UdHandle(c)))
            /\ sent' = FetchSegments(MkKey(UP_DOWN, Local, dst), sent,
                                     topoHasPS)
    /\ UNCHANGED <<now, ticks, up, down, core, pending, signals, topoHasPS,
                   daemon, replies, revs, deletions, api>>

\* Faulty variant: the local AD is looked up like any other destination.
GetPathsNoBypass(c, dst) ==
    /\ call[c].pc = "idle"
    /\ \A c2 \in Callers : c2 < c => call[c2].pc # "idle"
    /\ call' = [call EXCEPT ![c] =
                  [@ EXCEPT !.pc = "wait_ud", !.dst = dst,
                            !.deadline = now + TIMEOUT]]
    /\ queue' = Append(queue, Msg(MkKey(UP_DOWN, Local, dst), UdHandle(c)))
    /\ UNCHANGED <<now, ticks, up, down, core, pending, signals, sent,
                   topoHasPS, daemon, replies, revs, deletions, api>>

\* get_paths, to the wait on the UP_DOWN key: the local AD is answered with
\* the empty path; any other destination is submitted to the coordinator.
\* The calling threads are interchangeable: they start in the order of their
\* numbers.
GetPaths(c, dst) ==
    /\ call[c].pc = "idle"
    /\ \A c2 \in Callers : c2 < c => call[c2].pc # "idle"
    /\ IF Local = dst
       THEN /\ call' = [call EXCEPT ![c] = Done([@ EXCEPT !.dst = dst],
                                                <<EmptyPath>>)]
            /\ queue' = queue
       ELSE /\ call' = [call EXCEPT ![c] =
                          [@ EXCEPT !.pc = "wait_ud", !.dst = dst,
                                    !.deadline = now + TIMEOUT]]
            /\ queue' = Append(queue, Msg(MkKey(UP_DOWN, Local, dst),
                                          UdHandle(c)))
    /\ UNCHANGED <<now, ticks, up, down, core, pending, signals, sent,
                   topoHasPS, daemon, replies, revs, deletions, api>>

\* Faulty variant: the wait for the core segments gets a deadline of its own.
ResolvePathsFreshDeadline(c) ==
    LET dst == call[c].dst
        ups == StoreQuery(up, now, AnyAd, AnyAd)
        downs == StoreQuery(down, now, AnyAd, dst)
        cs == CalcCoreSegs(dst[1], ups, downs, core, now)
    IN /\ up' = Live(up, now)
       /\ down' = Live(down, now)
       /\ core' = IF cs.queried THEN Live(core, now) ELSE core
       /\ IF cs.missing # {}
          THEN /\ queue' = queue \o CoreRequests(c, dst[1], cs.missing)
               /\ call' = [call EXCEPT ![c] =
                             [@ EXCEPT !.pc = "wait_core", !.upS = ups,
                                       !.downS = downs, !.coreS = cs.segs,
                                       !.missing = cs.missing,
                                       !.deadline = now + TIMEOUT]]
          ELSE /\ queue' = queue
               /\ call' = [call EXCEPT ![c] =
                             Done(@, CombinePaths(ups, downs, cs.segs))]

\* Faulty variant: the down segments of every destination are read.
ResolvePathsAnyDown(c) ==
    LET dst == call[c].dst
        ups == StoreQuery(up, now, AnyAd, AnyAd)
        downs == StoreQuery(down, now, AnyAd, AnyAd)
        cs == CalcCoreSegs(dst[1], ups, downs, core, now)
    IN /\ up' = Live(up, now)
       /\ down' = Live(down, now)
       /\ core' = IF cs.queried THEN Live(core, now) ELSE core
       /\ IF cs.missing # {}
          THEN /\ queue' = queue \o CoreRequests(c, dst[1], cs.missing)
               /\ call' = [call EXCEPT ![c] =
                             [@ EXCEPT !.pc = "wait_core", !.upS = ups,
                                       !.downS = downs, !.coreS = cs.segs,
                                       !.missing = cs.missing]]
          ELSE /\ queue' = queue
               /\ call' = [call EXCEPT ![c] =
                             Done(@, CombinePaths(ups, downs, cs.segs))]

\* get_paths after its first wait: it reads the up and down segments, looks
\* up the core segments, and either requests the missing ones or combines
\* at once.
ResolvePaths(c) ==
    LET dst == call[c].dst
        ups == StoreQuery(up, now, AnyAd, AnyAd)
        downs == StoreQuery(down, now, AnyAd, dst)
        cs == CalcCoreSegs(dst[1], ups, downs, core, now)
    IN /\ up' = Live(up, now)
       /\ down' = Live(down, now)
       /\ core' = IF cs.queried THEN Live(core, now) ELSE core
       /\ IF cs.missing # {}
          THEN /\ queue' = queue \o CoreRequests(c, dst[1], cs.missing)
               /\ call' = [call EXCEPT ![c] =
                             [@ EXCEPT !.pc = "wait_core", !.upS = ups,
                                       !.downS = downs, !.coreS = cs.segs,
                                       !.missing = cs.missing]]
          ELSE /\ queue' = queue
               /\ call' = [call EXCEPT ![c] =
                             Done(@, CombinePaths(ups, downs, cs.segs))]

\* A timeout that does not return: get_paths goes on to the lookup.
GetPathsTimeoutFallsThrough(c) ==
    /\ call[c].pc = "wait_ud"
    /\ Count(signals, UdHandle(c)) = 0
    /\ now >= call[c].deadline
    /\ ResolvePaths(c)
    /\ UNCHANGED <<now, ticks, pending, signals, sent, topoHasPS, daemon,
                   replies, revs, deletions, api>>

\* get_paths: the wait on the UP_DOWN key ends at the deadline; the result
\* is the empty list.
GetPathsTimeout(c) ==
    /\ call[c].pc = "wait_ud"
    /\ Count(signals, UdHandle(c)) = 0
    /\ now >= call[c].deadline
    /\ call' = [call EXCEPT ![c] = Done(@, <<>>)]
    /\ UNCHANGED <<now, ticks, up, down, core, queue, pending, signals, sent,
                   topoHasPS, daemon, replies, revs, deletions, api>>

\* get_paths: woken on the UP_DOWN key, it goes on to the lookup.
GetPathsWake(c) ==
    /\ call[c].pc = "wait_ud"
    /\ Count(signals, UdHandle(c)) > 0
    /\ ResolvePaths(c)
    /\ UNCHANGED <<now, ticks, pending, signals, sent, topoHasPS, daemon,
                   replies, revs, deletions, api>>

\* A step-6 timeout that aborts the call.
GetCoreSegsAborts(c) ==
    /\ call[c].pc = "wait_core"
    /\ \/ \A p \in call[c].missing : Count(signals, CoreHandle(c, p)) > 0
       \/ now >= call[c].deadline
    /\ LET found == FindCoreSegs(Local[1], call[c].dst[1], call[c].missing,
                                 core, now)
       IN /\ core' = Live(core, now)
          /\ call' = [call EXCEPT ![c] =
                        Done(@, IF found.missing # {} THEN <<>>
                                ELSE CombinePaths(call[c].upS, call[c].downS,
                                         call[c].coreS \cup found.segs))]
    /\ UNCHANGED <<now, ticks, up, down, queue, pending, signals, sent,
                   topoHasPS, daemon, replies, revs, deletions, api>>

\* _get_core_segs after its waits, and the end of get_paths: every CORE
\* event was set or the deadline passed; the missing pairs are looked up
\* again and the paths are combined.
GetCoreSegs(c) ==
    /\ call[c].pc = "wait_core"
    /\ \/ \A p \in call[c].missing : Count(signals, CoreHandle(c, p)) > 0
       \/ now >= call[c].deadline
    /\ LET found == FindCoreSegs(Local[1], call[c].dst[1], call[c].missing,
                                 core, now)
       IN /\ core' = Live(core, now)
          /\ call' = [call EXCEPT ![c] =
                        Done(@, CombinePaths(call[c].upS, call[c].downS,
                                             call[c].coreS \cup found.segs))]
    /\ UNCHANGED <<now, ticks, up, down, queue, pending, signals, sent,
                   topoHasPS, daemon, replies, revs, deletions, api>>

\* ------------------------------------------------------- the local API
\* path.pack() and path.interfaces (lib.packet.path): the raw path takes 8
\* bytes per segment it is built of, and there is one interface per segment
\* end.
NumSegs(path) == Cardinality({f \in {"up", "core", "down"} : path[f] # 0})
RawLen(path) == 8 * NumSegs(path)
IfCount(path) == 2 * NumSegs(path)

\* struct.pack("H", x): the two bytes of x, in the byte order of the host
\* when the format names none.
PackH(x, bo) ==
    IF bo = "big" THEN <<x \div 256, x % 256>> ELSE <<x % 256, x \div 256>>

\* The entry of one path in the response of _api_handle_path_request, with
\* its size in bytes: path_len, raw path, first-hop address and port,
\* interface count, and 5 bytes per interface.
ApiEntry(path) ==
    [path_len |-> RawLen(path) \div 8, if_count |-> IfCount(path),
     fh_port |-> PackH(SCION_UDP_PORT, api.native),
     size |-> 1 + RawLen(path) + 4 + 2 + 1 + 5 * IfCount(path)]

\* The response: the entries of the paths, joined.
ApiPayload(paths) == [k \in 1..Len(paths) |-> ApiEntry(paths[k])]

\* The workers the local API starts, one per path request datagram.
InitApi ==
    /\ now = 0
    /\ ticks = 0
    /\ up = {}
    /\ down = {}
    /\ core = {}
    /\ queue = <<>>
    /\ pending = {}
    /\ signals = <<>>
    /\ sent = <<>>
    /\ topoHasPS \in BOOLEAN
    /\ call = [c \in Callers |->
                 IF c \in ApiWorkers THEN [IdleCall EXCEPT !.sender = c]
                 ELSE IdleCall]
    /\ daemon = DaemonIdle
    /\ replies = 0
    /\ revs = 0
    /\ deletions = 0
    /\ api \in {ApiSock(bo) : bo \in ByteOrders}

\* Faulty variant: no datagram is sent when there is no path.
ApiSendUnlessEmpty(c) ==
    /\ Sending(c)
    /\ call' = [call EXCEPT ![c] =
                  [@ EXCEPT !.pc = "replied",
                            !.responses = IF call[c].result = <<>>
                                          THEN @ ELSE @ + 1,
                            !.payload = ApiPayload(call[c].result)]]
    /\ UNCHANGED <<now, ticks, up, down, core, queue, pending, signals, sent,
                   topoHasPS, daemon, replies, revs, deletions, api>>

\* api_handle_request for a datagram that starts with 0, to the wait of
\* get_paths: a worker thread is started, which reads the destination from
\* the datagram and calls get_paths.  Requests arrive while the clock has a
\* step left to reach their deadline.
ApiHandlePathRequest(c, dst) ==
    /\ call[c].sender # 0
    /\ ticks < MaxTicks
    /\ GetPaths(c, dst)

\* _api_handle_path_request after get_paths: the paths are packed and one
\* datagram is sent to the sender of the request.
ApiSend(c) ==
    /\ Sending(c)
    /\ call' = [call EXCEPT ![c] =
                  [@ EXCEPT !.pc = "replied", !.responses = @ + 1,
                            !.payload = ApiPayload(call[c].result)]]
    /\ UNCHANGED <<now, ticks, up, down, core, queue, pending, signals, sent,
                   topoHasPS, daemon, replies, revs, deletions, api>>

\* ISD_AD.pack and ISD_AD.from_raw: (ISD << 20) | AD as four bytes.
IsdAdRaw(ia) ==
    LET bits == ia[1] * 1048576 + ia[2]
    IN <<bits \div 16777216, (bits \div 65536) % 256, (bits \div 256) % 256,
         bits % 256>>
IsdAdFromRaw(raw) ==
    LET bits == raw[1] * 16777216 + raw[2] * 65536 + raw[3] * 256 + raw[4]
    IN <<bits \div 1048576, bits % 1048576>>

\* self.addr.pack(): the daemon's address, ISD-AD and host.
LocalHostAddr == <<127, 0, 0, 1>>
AddrPack == IsdAdRaw(Local) \o LocalHostAddr

\* The datagrams the clients of the local API send: path requests for two
\* remote destinations, an address request, and two discriminators the
\* daemon does not know.
DgramDests == {<<2, 20>>, <<1, 20>>}
ApiPackets ==
    {<<0>> \o IsdAdRaw(dst) : dst \in DgramDests} \cup {<<1>>, <<2>>, <<255>>}

\* Faulty variant: the address goes to every client.
ApiOutBroadcast(packet, sender) ==
    IF packet[1] = 1
    THEN [c \in 1..NCallers |-> [to |-> c, payload |-> AddrPack]]
    ELSE <<>>

\* Faulty variant: whatever is not a path request is an address request.
ApiOutAlways(packet, sender) == <<[to |-> sender, payload |-> AddrPack]>>

\* api_handle_request for a datagram that is no path request: what it sends
\* on the socket.
ApiOut(packet, sender) ==
    IF packet[1] = 1 THEN <<[to |-> sender, payload |-> AddrPack]>> ELSE <<>>

\* The local API with every caller a worker of a path request.
InitDgram ==
    /\ now = 0
    /\ ticks = 0
    /\ up = {}
    /\ down = {}
    /\ core = {}
    /\ queue = <<>>
    /\ pending = {}
    /\ signals = <<>>
    /\ sent = <<>>
    /\ topoHasPS = TRUE
    /\ call = [c \in Callers |-> [IdleCall EXCEPT !.sender = c]]
    /\ daemon = DaemonIdle
    /\ replies = 0
    /\ revs = 0
    /\ deletions = 0
    /\ api = ApiSock("little")

\* Faulty variant: the daemon thread handles the path request itself, and
\* takes the next datagram when get_paths has returned and the response is
\* sent.
ApiHandleRequestInline(packet, sender) ==
    /\ daemon = DaemonIdle
    /\ \A c \in Callers : call[c].pc \in {"idle", "replied"}
    /\ IF packet[1] = 0
       THEN ApiHandlePathRequest(sender, IsdAdFromRaw(SubSeq(packet, 2, 5)))
       ELSE /\ api.received < MaxDgrams
            /\ api' = [api EXCEPT
                          !.received = @ + 1,
                          !.out = @ \o ApiOut(packet, sender)]
            /\ UNCHANGED <<now, ticks, up, down, core, queue, pending,
                           signals, sent, topoHasPS, call, daemon, replies,
                           revs, deletions>>

\* api_handle_request, on the daemon thread: a path request is given to a
\* worker thread, an address request is answered with self.addr.pack(), a
\* datagram with any other first byte is logged and dropped.
ApiHandleRequest(packet, sender) ==
    /\ daemon = DaemonIdle
    /\ IF packet[1] = 0
       THEN ApiHandlePathRequest(sender, IsdAdFromRaw(SubSeq(packet, 2, 5)))
       ELSE /\ api.received < MaxDgrams
            /\ api' = [api EXCEPT
                          !.received = @ + 1,
                          !.out = @ \o ApiOut(packet, sender)]
            /\ UNCHANGED <<now, ticks, up, down, core, queue, pending,
                           signals, sent, topoHasPS, call, daemon, replies,
                           revs, deletions>>

\* The steps that follow from earlier ones: the end of handle_path_reply,
\* the coordinator thread, the waits of get_paths.
Internal ==
    \/ HandlePathReplyPut
    \/ CoordWait
    \/ CoordFulfil
    \/ CoordExpire
    \/ \E c \in Callers : GetPathsTimeout(c)
    \/ \E c \in Callers : GetPathsWake(c)
    \/ \E c \in Callers : GetCoreSegs(c)

\* Path lookup: concurrent get_paths calls, the path server's replies to
\* them, and time up to the lookup deadlines.
Next ==
    \/ \E d \in {TIMEOUT} : Tick(d)
    \/ \E r \in LookupReplies : HandlePathReply(r.info, r.pcbs)
    \/ \E c \in Callers, dst \in LookupDests : GetPaths(c, dst)
    \/ Internal

Spec == Init /\ [][Next]_vars

\* The segment stores over their lifetime, as get_paths sees them: replies
\* of every seg_type, time up to the segment lifetime, and one get_paths
\* caller.
NextStore ==
    \/ \E d \in TickSteps : Tick(d)
    \/ \E r \in Replies : HandlePathReply(r.info, r.pcbs)
    \/ \E dst \in Dests : GetPaths(1, dst)
    \/ Internal

SpecStore == Init /\ [][NextStore]_vars

\* The replies of the path server to the lookup of the remote destination.
ApiReplies ==
    {Reply(UP_DOWN, Local, <<2, 20>>, <<1, 2, 3>>),
     Reply(CORE, <<1, 1>>, <<2, 1>>, <<5>>)}

\* The local API: path request datagrams, each handled by a worker of its
\* own, and the replies of the path server.
NextApi ==
    \/ \E d \in {TIMEOUT} : Tick(d)
    \/ \E r \in ApiReplies : HandlePathReply(r.info, r.pcbs)
    \/ \E c \in ApiWorkers, dst \in LookupDests : ApiHandlePathRequest(c, dst)
    \/ \E c \in ApiWorkers : ApiSend(c)
    \/ Internal

\* Every thread keeps running and the clock keeps advancing.
FairApi ==
    /\ WF_vars(\E d \in {TIMEOUT} : Tick(d))
    /\ WF_vars(HandlePathReplyPut)
    /\ WF_vars(CoordWait)
    /\ WF_vars(CoordFulfil)
    /\ \A c \in ApiWorkers :
           /\ WF_vars(GetPathsTimeout(c))
           /\ WF_vars(GetPathsWake(c))
           /\ WF_vars(GetCoreSegs(c))
           /\ WF_vars(ApiSend(c))

SpecApi == InitApi /\ [][NextApi]_vars /\ FairApi

\* The replies of the path server to the lookups of the API clients.
DgramReplies ==
    {Reply(UP_DOWN, Local, <<2, 20>>, <<1, 2, 3>>),
     Reply(UP_DOWN, Local, <<1, 20>>, <<1, 4>>)}

\* The local API socket: datagrams of every kind from the clients, the
\* workers of the path requests, and the replies of the path server.
NextDgram ==
    \/ \E d \in {TIMEOUT} : Tick(d)
    \/ \E r \in DgramReplies : HandlePathReply(r.info, r.pcbs)
    \/ \E p \in ApiPackets, s \in Callers : ApiHandleRequest(p, s)
    \/ \E c \in Callers : ApiSend(c)
    \/ Internal

SpecDgram == InitDgram /\ [][NextDgram]_vars

\* The daemon thread alone: path replies of every seg_type and revocations,
\* handled one packet at a time, over the segment lifetime; the coordinator
\* takes the fulfilments.
NextRev ==
    \/ \E d \in TickSteps : Tick(d)
    \/ \E r \in Replies : HandlePathReply(r.info, r.pcbs)
    \/ \E tok \in RevTokens : HandleRevocation(tok, RevProof[tok])
    \/ RevScan
    \/ RevDelete
    \/ HandlePathReplyPut
    \/ CoordFulfil

SpecRev == Init /\ [][NextRev]_vars

\* ====================================================== the properties
\* The UP_DOWN key of a lookup of dst.
UdKey(dst) == MkKey(UP_DOWN, Local, dst)
Remote == <<2, 20>>

\* The coordinator takes the head of its queue in this step.
CoordTakes == queue # <<>> /\ queue' = Tail(queue)
LiveEntries(key) == EntriesOf(Unexpired(pending, now), key)

\* C1: a PathRequest for a key is sent only in the step that creates the
\* key's pending entry, and one only; a wait submission for a key that has
\* an entry is attached to it and no PathRequest is sent.
C1_FetchDedup ==
    [][/\ \A k \in DOMAIN sent' :
             Count(sent', k) > Count(sent, k) =>
                 /\ Count(sent', k) = Count(sent, k) + 1
                 /\ CoordTakes
                 /\ Head(queue).key = k
                 /\ LiveEntries(k) = {}
                 /\ \E e \in pending' : e.key = k /\ Len(e.waiters) = 1
       /\ (CoordTakes /\ Head(queue).h # NoHandle
             /\ LiveEntries(Head(queue).key) # {}) =>
                 /\ sent' = sent
                 /\ \E e \in pending' :
                        /\ e.key = Head(queue).key
                        /\ e.waiters[Len(e.waiters)] = Head(queue).h
      ]_vars

\* Two callers wait on one entry for which one PathRequest went out.
C1_Witness ==
    \E e \in pending :
        /\ e.key = UdKey(Remote)
        /\ Range(e.waiters) = {UdHandle(c) : c \in Callers}
        /\ Count(sent, e.key) = 1

\* C2: the pending table never holds two entries for one key.
C2_OneEntryPerKey ==
    \A e1 \in pending, e2 \in pending : e1.key = e2.key => e1 = e2

\* After a reply and a deadline, an entry with two waiters and an entry for
\* another key are pending.
C2_Witness ==
    /\ replies > 0
    /\ ticks > 0
    /\ \E e1 \in pending, e2 \in pending :
           Len(e1.waiters) >= 2 /\ e2.key # e1.key

\* C3: the coordinator's step for a fulfilment of a key sets every handle
\* attached to the key's entry once, sets no other handle, and removes the
\* entry.
C3_FulfilWakesAll ==
    [][(CoordTakes /\ Head(queue).h = NoHandle) =>
          LET k == Head(queue).key
              hs == UNION {Range(e.waiters) : e \in LiveEntries(k)}
          IN /\ \A h \in hs : Count(signals', h) = Count(signals, h) + 1
             /\ \A h \in DOMAIN signals' \ hs :
                    Count(signals', h) = Count(signals, h)
             /\ EntriesOf(pending', k) = {}
      ]_vars

\* Both callers were woken, once each, by a reply that carried no segment.
C3_Witness ==
    /\ \A c \in Callers : Count(signals, UdHandle(c)) = 1
    /\ replies = 1
    /\ up = {} /\ down = {} /\ core = {}
    /\ Count(sent, UdKey(Remote)) = 1
    /\ pending = {}

\* The PCBs of a reply that the classifier of its seg_type accepts are in
\* the store of their class.
AcceptedStored(segType, pcbs) ==
    \A id \in Range(pcbs) :
        /\ (segType \in {UP, UP_DOWN} /\ PCB[id].last = Local) =>
               id \in StoreIds(up)
        /\ (segType \in {DOWN, UP_DOWN} /\ PCB[id].last # Local) =>
               id \in StoreIds(down)
        /\ segType = CORE => id \in StoreIds(core)

\* C4: a fulfilment is submitted only by handle_path_reply after its loop,
\* for the key of the reply, when every accepted PCB of the reply is in its
\* store; and a waiter's handle is set only by the coordinator, for a
\* fulfilment of the waiter's key or for the waiter's own submission.
C4_ReplyBeforeWake ==
    [][/\ (Len(queue') > Len(queue) /\ queue'[Len(queue')].h = NoHandle) =>
              /\ daemon.pc = "reply"
              /\ queue'[Len(queue')].key = daemon.info
              /\ AcceptedStored(daemon.info[1], daemon.pcbs)
       /\ \A c \in Callers :
              Count(signals', UdHandle(c)) > Count(signals, UdHandle(c)) =>
                  /\ CoordTakes
                  /\ Head(queue).key = UdKey(call[c].dst)
                  /\ Head(queue).h \in {NoHandle, UdHandle(c)}
      ]_vars

\* A caller woken by the one reply so far has read that reply's up and
\* down segments.
C4_Witness ==
    \E c \in Callers :
        /\ call[c].pc = "wait_core"
        /\ call[c].upS = {1, 2}
        /\ call[c].downS = {3}
        /\ replies = 1
        /\ Count(sent, UdKey(Remote)) = 1

\* C5: every segment of the UP store ends at the local AD.
C5_UpStoreLocal == \A e \in up : PCB[e[1]].last = Local

\* A reply of class UP with a segment that ends elsewhere was handled after
\* a revocation, and the UP store holds a segment.
C5_Witness ==
    /\ daemon.pc = "reply"
    /\ daemon.info[1] = UP
    /\ \E id \in Range(daemon.pcbs) : PCB[id].last # Local
    /\ revs > 0
    /\ up # {}

\* C6: no segment of the DOWN store ends at the local AD.
C6_DownStoreRemote == \A e \in down : PCB[e[1]].last # Local

\* A reply of class DOWN with a segment that ends at the local AD was
\* handled after a revocation, and the DOWN store holds a segment.
C6_Witness ==
    /\ daemon.pc = "reply"
    /\ daemon.info[1] = DOWN
    /\ \E id \in Range(daemon.pcbs) : PCB[id].last = Local
    /\ revs > 0
    /\ down # {}

\* C7: a get_paths call for the local AD ends at once with exactly the
\* empty path; nothing is submitted to the coordinator, the pending table
\* is unchanged and no PathRequest is sent.
C7_IntraAdBypass ==
    [][\A c \in Callers :
          (call[c].pc = "idle" /\ call'[c] # call[c] /\ call'[c].dst = Local)
              => /\ call'[c].pc = "done"
                 /\ call'[c].result = <<EmptyPath>>
                 /\ queue' = queue
                 /\ pending' = pending
                 /\ sent' = sent
      ]_vars

\* A call for the local AD returned the empty path while the stores held
\* segments.
C7_Witness ==
    \E c \in Callers :
        /\ call[c].pc = "done"
        /\ call[c].dst = Local
        /\ call[c].result = <<EmptyPath>>
        /\ up # {}
        /\ down # {}

\* C8: a caller whose UP_DOWN event is not set leaves its wait only at or
\* after its deadline, with the empty list, without a CORE submission and
\* without a query of the stores.
C8_Step3Timeout ==
    [][\A c \in Callers :
          (/\ call[c].pc = "wait_ud"
           /\ Count(signals, UdHandle(c)) = 0
           /\ call'[c] # call[c])
              => /\ now >= call[c].deadline
                 /\ call'[c].pc = "done"
                 /\ call'[c].result = <<>>
                 /\ queue' = queue
                 /\ <<up', down', core'>> = <<up, down, core>>
      ]_vars

\* A call timed out with the empty list while the stores held an up and a
\* down segment for its destination.
C8_Witness ==
    \E c \in Callers :
        /\ call[c].pc = "done"
        /\ call[c].dst = Remote
        /\ call[c].result = <<>>
        /\ Count(signals, UdHandle(c)) = 0
        /\ StoreIds(up) # {}
        /\ 3 \in StoreIds(down)

\* C9: a wait submission that the coordinator takes when the key has no
\* unexpired entry, the stores cannot answer it and the path server is
\* known, sends a PathRequest for the key, whatever was requested before.
C9_NoNegativeCaching ==
    [][(/\ CoordTakes
        /\ Head(queue).h # NoHandle
        /\ LiveEntries(Head(queue).key) = {}
        /\ ~CheckSegments(Head(queue).key, Stores(up, down, core), now)
        /\ topoHasPS)
          => /\ Count(sent', Head(queue).key) = Count(sent, Head(queue).key) + 1
             /\ Count(signals', Head(queue).h) = Count(signals, Head(queue).h)
             /\ \E e \in pending' :
                    e.key = Head(queue).key /\ e.waiters = <<Head(queue).h>>
      ]_vars

\* A call timed out with the empty list, its entry is gone, and the next
\* call for the same destination made the second PathRequest.
C9_Witness ==
    /\ call[1].pc = "done" /\ call[1].dst = Remote /\ call[1].result = <<>>
    /\ call[2].pc = "wait_ud" /\ call[2].dst = Remote
    /\ call[2].deadline - TIMEOUT >= call[1].deadline
    /\ Count(sent, UdKey(Remote)) = 2
    /\ up = {} /\ down = {}
    /\ \A e \in pending : e.waiters = <<UdHandle(2)>>

\* The core segments of the CORE store that join a pair of the set.
CoreFor(dstIsd, pairs) ==
    {id \in StoreIds(Live(core, now)) :
        \E p \in pairs : /\ PCB[id].last = <<Local[1], p[1]>>
                         /\ PCB[id].first = <<dstIsd, p[2]>>}

\* The paths the combinator owes for the segments given.
PathsOwed(ups, downs, cores) ==
    {[kind |-> "shortcut", up |-> u, core |-> 0, down |-> d] :
        <<u, d>> \in {q \in ups \X downs :
                         PCB[q[1]].mid \cap PCB[q[2]].mid # {}}}
    \cup {[kind |-> "core", up |-> u, core |-> 0, down |-> d] :
        <<u, d>> \in {q \in ups \X downs :
                         PCB[q[1]].first = PCB[q[2]].first}}
    \cup {[kind |-> "core", up |-> t[1], core |-> t[3], down |-> t[2]] :
        t \in {q \in ups \X downs \X cores :
                  /\ PCB[q[3]].last = PCB[q[1]].first
                  /\ PCB[q[3]].first = PCB[q[2]].first}}

\* C10: a caller that leaves its wait on the CORE keys, fulfilled or not,
\* returns the paths of its up and down snapshot with the core segments it
\* knew and those the CORE store now holds for the missing pairs.
C10_Step6NoAbort ==
    [][\A c \in Callers :
          (call[c].pc = "wait_core" /\ call'[c] # call[c])
              => /\ call'[c].pc = "done"
                 /\ Range(call'[c].result) =
                        PathsOwed(call[c].upS, call[c].downS,
                                  call[c].coreS
                                  \cup CoreFor(call[c].dst[1], call[c].missing))
      ]_vars

\* A call returned a path at its deadline although one of its CORE keys was
\* never fulfilled.
C10_Witness ==
    \E c \in Callers :
        /\ call[c].pc = "done"
        /\ call[c].result # <<>>
        /\ call[c].dst = Remote
        /\ now >= call[c].deadline
        /\ Count(signals, CoreHandle(c, <<1, 1>>)) = 1
        /\ Count(signals, CoreHandle(c, <<2, 1>>)) = 0

\* C11: a wait submission for an UP_DOWN key without pending entry, taken
\* by the coordinator when the UP store holds a non-expired segment and the
\* DOWN store a non-expired segment that ends at the key's destination,
\* wakes its handle in that step; no PathRequest is sent and no entry stays
\* pending for the key.
C11_CheckBeforeFetch ==
    [][(/\ CoordTakes
        /\ Head(queue).h # NoHandle
        /\ Head(queue).key[1] = UP_DOWN
        /\ LiveEntries(Head(queue).key) = {}
        /\ \E e \in Live(up, now) : TRUE
        /\ \E e \in Live(down, now) : PCB[e[1]].last = KeyDst(Head(queue).key))
          => /\ Count(signals', Head(queue).h) = Count(signals, Head(queue).h) + 1
             /\ sent' = sent
             /\ EntriesOf(pending', Head(queue).key) = {}
      ]_vars

\* A call was woken although no fulfilment reached its entry and no
\* PathRequest was ever sent, with a path server known: the stores answered.
C11_Witness ==
    /\ topoHasPS
    /\ sent = <<>>
    /\ call[1].dst = Remote
    /\ Count(signals, UdHandle(1)) = 1
    /\ call[1].pc = "done"
    /\ call[1].result # <<>>
    /\ ticks > 0

\* The non-expired segments of a store.
FreshIds(store) == {e[1] : e \in {x \in store : now - x[2] <= SEGMENT_TTL}}
\* The store handle_revocation knows by the name.
StoreAt(name) == Stores(up, down, core)[name]
\* The segments with an interface token at most N_TOKENS_CHECK places after
\* the revocation token on the hash chain.
Revoked(revToken) ==
    {id \in PcbIds :
        \E tk \in PCB[id].toks : tk - revToken \in 1..N_TOKENS_CHECK}
\* The step is the batch delete of handle_revocation on its current store.
RevDeletes == daemon.pc = "rev" /\ daemon.scanned /\ daemon' # daemon

\* C12: handle_revocation goes through the UP, CORE and DOWN stores in
\* turn; its batch delete on a store removes exactly the non-expired
\* segments with an interface token within N_TOKENS_CHECK hashes of the
\* revocation token, and no other step of it removes or adds a segment.
C12_RevocationExact ==
    [][/\ (daemon.pc = "idle" /\ daemon'.pc = "rev") => daemon'.stage = 1
       /\ RevDeletes =>
              \/ daemon'.pc = "rev" /\ daemon'.stage = daemon.stage + 1
              \/ daemon'.pc = "idle" /\ daemon.stage = Len(RevOrder)
       /\ daemon.pc = "rev" =>
              \A k \in DOMAIN RevOrder :
                  FreshIds(StoreAt(RevOrder[k])') =
                      IF RevDeletes /\ daemon.stage = k
                      THEN FreshIds(StoreAt(RevOrder[k])) \ Revoked(daemon.tok)
                      ELSE FreshIds(StoreAt(RevOrder[k]))
      ]_vars

\* The revocation token 20 places before token 30 removed both up segments
\* that carry it and left the core segment, which carries token 90.
C12_Witness ==
    /\ daemon.pc = "rev"
    /\ daemon.tok = 10
    /\ daemon.stage = 3
    /\ daemon.count = 2
    /\ up = {}
    /\ 5 \in StoreIds(core)

\* The step is the batch delete of handle_revocation on the UP store.
RevDeletesUp == RevDeletes /\ RevOrder[daemon.stage] = "up"
\* The deletions handle_revocation has counted after this batch delete.
CountAfter ==
    daemon.count
    + Cardinality(FreshIds(StoreAt(RevOrder[daemon.stage]))
                  \cap Revoked(daemon.tok))

\* C13 as stated: a revocation whose token is the hash of an interface
\* token T of a segment S of the UP store deletes S.
C13_HashOfToken ==
    [][RevDeletesUp =>
          \A S \in FreshIds(up) :
              (\E T \in PCB[S].toks : daemon.tok = Hash(T))
                  => /\ S \notin StoreQuery(up', now, AnyAd, AnyAd)
                     /\ daemon'.count >= 1
      ]_vars

\* C13: a revocation whose token hashes to an interface token T of a
\* segment S of the UP store deletes S, which no query of the UP store
\* returns any more; the deletions reported are the segments removed from
\* the three stores, one when S is the only segment removed.
C13_PreimageOfToken ==
    [][/\ RevDeletesUp =>
              \A S \in FreshIds(up) :
                  (\E T \in PCB[S].toks : Hash(daemon.tok) = T)
                      => /\ S \notin StoreIds(up')
                         /\ \A first \in {AnyAd, PCB[S].first},
                               last \in {AnyAd, PCB[S].last} :
                                S \notin StoreQuery(up', now, first, last)
                         /\ daemon'.count >= 1
                         /\ FreshIds(up) \cap Revoked(daemon.tok) = {S}
                                => daemon'.count = 1
       /\ (daemon.pc = "idle" /\ daemon'.pc = "rev") => daemon'.count = 0
       /\ (RevDeletes /\ daemon'.pc = "rev") =>
              daemon'.count = CountAfter /\ deletions' = deletions
       /\ (RevDeletes /\ daemon'.pc = "idle") => deletions' = CountAfter
      ]_vars

\* The revocation token that hashes to token 30 removed the one segment of
\* the UP store, which carries it; one deletion is counted and the DOWN
\* store holds nothing to remove.
C13_Witness ==
    /\ daemon.pc = "rev"
    /\ daemon.tok = 29
    /\ RevOrder[daemon.stage] = "down"
    /\ daemon.scanned
    /\ daemon.toRemove = {}
    /\ daemon.count = 1
    /\ StoreQuery(up, now, AnyAd, AnyAd) = {}
    /\ replies = 1

\* The verification handle_revocation has commented out:
\* HashChain.verify(rev_info.proof, rev_info.rev_token).
ProofVerifies(proof, revToken) == HashVerify(proof, revToken, N_TOKENS_CHECK)

\* C14: no step of the handling of a revocation whose proof does not verify
\* removes a segment from the UP, CORE or DOWN store.
C14_UnverifiedIgnored ==
    [][(daemon.pc = "rev" /\ ~ProofVerifies(daemon.proof, daemon.tok)) =>
          \A k \in DOMAIN RevOrder :
              FreshIds(StoreAt(RevOrder[k])') = FreshIds(StoreAt(RevOrder[k]))
      ]_vars

\* C15: a segment is inserted or refreshed in a store only by the loop of
\* handle_path_reply, entered when no revocation is being handled, so never
\* between the scan and the batch delete of a store.  A segment with a
\* revoked token that was inserted before the revocation is gone after the
\* batch delete of its store; one inserted after the revocation is stored.
C15_RevocationVersusInsertion ==
    [][/\ \A k \in DOMAIN RevOrder :
              ~(StoreAt(RevOrder[k])' \subseteq StoreAt(RevOrder[k])) =>
                  daemon.pc = "idle" /\ daemon'.pc = "reply"
       /\ RevDeletes =>
              \A k \in {daemon.stage} :
                  FreshIds(StoreAt(RevOrder[k])') \cap Revoked(daemon.tok) = {}
       /\ (daemon.pc = "idle" /\ daemon'.pc = "reply") =>
              \A id \in Range(daemon'.pcbs) :
                  /\ (daemon'.info[1] \in {UP, UP_DOWN} /\ PCB[id].last = Local)
                         => <<id, now>> \in up'
                  /\ (daemon'.info[1] \in {DOWN, UP_DOWN}
                        /\ PCB[id].last # Local) => <<id, now>> \in down'
                  /\ daemon'.info[1] = CORE => <<id, now>> \in core'
      ]_vars

\* A revocation removed the up segments with the revoked token; a path
\* reply handled after it inserted one of them again, and it is stored.
C15_Witness ==
    /\ revs = 1
    /\ deletions >= 1
    /\ daemon = DaemonIdle
    /\ 1 \in FreshIds(up)

\* The segments of one class that a list of paths is built of.
SegsOf(paths, class) == {q[class] : q \in Range(paths)} \ {0}
\* No entry of the store is older than SEGMENT_TTL.
NoneExpired(store) == \A e \in store : now - e[2] <= SEGMENT_TTL

\* C16: every segment that get_paths reads from a store, and so every
\* segment of a path it returns, was inserted or refreshed at most
\* SEGMENT_TTL before the query, and the query leaves no expired entry in
\* the store; the check of an UP_DOWN key succeeds only on such segments.
C16_TtlBound ==
    [][/\ \A c \in Callers :
              (call[c].pc = "wait_ud" /\ call'[c].pc \in {"wait_core", "done"}
                /\ Count(signals, UdHandle(c)) > 0)
                  => /\ call'[c].upS \cup SegsOf(call'[c].result, "up")
                            \subseteq FreshIds(up)
                     /\ call'[c].downS \cup SegsOf(call'[c].result, "down")
                            \subseteq FreshIds(down)
                     /\ call'[c].coreS \cup SegsOf(call'[c].result, "core")
                            \subseteq FreshIds(core)
                     /\ up' = {e \in up : now - e[2] <= SEGMENT_TTL}
                     /\ down' = {e \in down : now - e[2] <= SEGMENT_TTL}
       /\ \A c \in Callers :
              (call[c].pc = "wait_core" /\ call'[c].pc = "done")
                  => /\ SegsOf(call'[c].result, "core")
                            \subseteq call[c].coreS \cup FreshIds(core)
                     /\ core' = {e \in core : now - e[2] <= SEGMENT_TTL}
       /\ (CoordTakes /\ Head(queue).h # NoHandle
             /\ Head(queue).key[1] = UP_DOWN
             /\ Count(signals', Head(queue).h) > Count(signals, Head(queue).h))
                  => /\ FreshIds(up) # {}
                     /\ \E id \in FreshIds(down) :
                            PCB[id].last = KeyDst(Head(queue).key)
                     /\ NoneExpired(up') /\ NoneExpired(down')
      ]_vars

\* A call was woken by the check on up segments 300 seconds old and a
\* younger down segment; when it read the stores 5 seconds later the up
\* segments had expired: they were dropped and it returned no path.
C16_Witness ==
    /\ topoHasPS
    /\ sent = <<>>
    /\ call[1].pc = "done"
    /\ call[1].dst = Remote
    /\ Count(signals, UdHandle(1)) = 1
    /\ call[1].result = <<>>
    /\ up = {}
    /\ 3 \in FreshIds(down)
    /\ now > SEGMENT_TTL

\* The entries of a store for one hops_hash.
EntriesFor(store, id) == {e \in store : e[1] = id}
\* The step is the loop of handle_path_reply.
ReplyLoop == daemon.pc = "idle" /\ daemon'.pc = "reply"

\* C17: after the loop of handle_path_reply every PCB that a classifier
\* accepted has exactly one entry in its store, whether or not it was
\* stored before, with the time of this insertion; no store ever holds two
\* entries for one hops_hash.
C17_IdempotentUpdate ==
    [][/\ \A k \in DOMAIN RevOrder : \A id \in PcbIds :
              Cardinality(EntriesFor(StoreAt(RevOrder[k])', id)) <= 1
       /\ ReplyLoop =>
              \A id \in Range(daemon'.pcbs) :
                  /\ (daemon'.info[1] \in {UP, UP_DOWN} /\ PCB[id].last = Local)
                         => EntriesFor(up', id) = {<<id, now>>}
                  /\ (daemon'.info[1] \in {DOWN, UP_DOWN}
                        /\ PCB[id].last # Local)
                         => EntriesFor(down', id) = {<<id, now>>}
                  /\ daemon'.info[1] = CORE
                         => EntriesFor(core', id) = {<<id, now>>}
      ]_vars

\* Up segments 1 and 2 were stored at time 0; a later reply carried
\* segment 1 again: it has one entry, with the later time.
C17_Witness ==
    /\ Cardinality(up) = 2
    /\ <<2, 0>> \in up
    /\ \E e \in up : e[1] = 1 /\ e[2] > 0
    /\ replies = 2

\* C18: when the lookup of the path server fails, no PathRequest is sent;
\* the fetch for a key leaves the new pending entry with its waiter in
\* place, unsignalled; the entry goes only by a fulfilment of its key or at
\* its deadline; and a caller whose event is not set leaves its wait at
\* its deadline with the empty list.
C18_ServiceLookupFailure ==
    [][~topoHasPS =>
          /\ sent' = <<>>
          /\ (/\ CoordTakes
              /\ Head(queue).h # NoHandle
              /\ LiveEntries(Head(queue).key) = {}
              /\ ~CheckSegments(Head(queue).key, Stores(up, down, core), now))
                 => /\ \E e \in pending' :
                           /\ e.key = Head(queue).key
                           /\ e.waiters = <<Head(queue).h>>
                           /\ e.deadline = now + TIMEOUT
                    /\ signals' = signals
          /\ \A e \in pending :
                 (\A e2 \in pending' : e2.key # e.key)
                     => \/ now >= e.deadline
                        \/ CoordTakes /\ Head(queue) = Msg(e.key, NoHandle)
          /\ \A c \in Callers :
                 (/\ call[c].pc = "wait_ud"
                  /\ Count(signals, UdHandle(c)) = 0
                  /\ call'[c] # call[c])
                     => /\ now >= call[c].deadline
                        /\ call'[c].pc = "done"
                        /\ call'[c].result = <<>>
      ]_vars

\* Without a path server and with empty stores, the coordinator created the
\* entry of a call, which ended at its deadline with the empty list; no
\* PathRequest was sent.
C18_Witness ==
    /\ ~topoHasPS
    /\ sent = <<>>
    /\ call[1].pc = "done"
    /\ call[1].dst = Remote
    /\ call[1].result = <<>>
    /\ Count(signals, UdHandle(1)) = 0
    /\ now >= call[1].deadline
    /\ up = {} /\ down = {}
    /\ replies = 0
    /\ queue = <<>>
    /\ \E e \in pending : e.key = UdKey(Remote) /\ e.waiters = <<UdHandle(1)>>

\* The PCBs of the reply being handled that end, or do not end, at the
\* local AD.
EndingLocal(pcbs) == {id \in Range(pcbs) : PCB[id].last = Local}
EndingElsewhere(pcbs) == {id \in Range(pcbs) : PCB[id].last # Local}

\* C19: the loop of handle_path_reply inserts no PCB of a reply whose
\* seg_type is none of UP, DOWN, UP_DOWN, CORE, and of any other reply
\* exactly the PCBs its classifiers accept, each judged on its own; the
\* key of the reply is fulfilled in either case.
C19_MalformedClass ==
    [][/\ ReplyLoop =>
              LET segType == daemon'.info[1]
                  pcbs == daemon'.pcbs
              IN /\ segType \notin {UP, DOWN, UP_DOWN, CORE}
                        => up' = up /\ down' = down /\ core' = core
                 /\ StoreIds(up') \ StoreIds(up) \subseteq EndingLocal(pcbs)
                 /\ segType \in {UP, UP_DOWN}
                        => EndingLocal(pcbs) \subseteq StoreIds(up')
                 /\ StoreIds(down') \ StoreIds(down)
                        \subseteq EndingElsewhere(pcbs)
                 /\ segType \in {DOWN, UP_DOWN}
                        => EndingElsewhere(pcbs) \subseteq StoreIds(down')
                 /\ segType = CORE => Range(pcbs) \subseteq StoreIds(core')
                 /\ segType # CORE => core' = core
                 /\ segType \notin {UP, UP_DOWN} => up' = up
                 /\ segType \notin {DOWN, UP_DOWN} => down' = down
       /\ (daemon.pc = "reply" /\ daemon' # daemon) =>
              /\ daemon'.pc = "idle"
              /\ queue' = Append(queue, Msg(daemon.info, NoHandle))
      ]_vars

\* The loop went through a reply of an unknown seg_type with two PCBs; the
\* stores, empty before, are empty still.
C19_Witness ==
    /\ daemon.pc = "reply"
    /\ daemon.info[1] = BAD
    /\ Len(daemon.pcbs) = 2
    /\ replies = 1
    /\ up = {} /\ down = {} /\ core = {}

\* C20: every worker started for a path request datagram sends a response,
\* one only, at the time its get_paths call returns, which is no later
\* than the deadline get_paths set when it started, also when a wait timed
\* out; the response is empty exactly when get_paths returned no path.
C20_ApiResponds ==
    /\ \A c \in ApiWorkers :
           (call[c].pc # "idle") ~> (call[c].responses = 1)
    /\ [][\A c \in ApiWorkers :
              /\ call'[c].responses # call[c].responses =>
                     /\ call[c].pc = "done"
                     /\ call[c].responses = 0 /\ call'[c].responses = 1
                     /\ call'[c].pc = "replied"
                     /\ (call'[c].payload = <<>>) <=> (call[c].result = <<>>)
                     /\ \A k \in DOMAIN call'[c].payload :
                            call'[c].payload[k].size > 0
              /\ call[c].pc = "replied" => call'[c] = call[c]
              /\ (call[c].pc = "idle" /\ call'[c].pc \in {"wait_ud"}) =>
                     call'[c].deadline = now + TIMEOUT
              /\ (Waiting(c) /\ call'[c].pc = "done") =>
                     now <= call[c].deadline
              /\ Sending(c) => now' = now
          ]_vars

\* A request for the remote destination was answered with an empty
\* datagram when its lookup timed out.
C20_Witness ==
    /\ call[1].pc = "replied"
    /\ call[1].responses = 1
    /\ call[1].dst = Remote
    /\ call[1].payload = <<>>
    /\ Count(signals, UdHandle(1)) = 0
    /\ now = call[1].deadline

\* ------------------------------------------------------------------ C21
\* The next path request the local API may be given: the workers start in
\* the order of their numbers.
NextWorker(c) ==
    /\ call[c].pc = "idle"
    /\ \A c2 \in Callers : c2 < c => call[c2].pc # "idle"
    /\ ticks < MaxTicks

\* C21: a path request that is blocked in get_paths does not hold up the
\* local API: while a worker waits and the daemon thread is between two
\* packets, an address request is taken and answered, and the next path
\* request is taken and reaches its own get_paths.
C21_ApiIsolation ==
    \A c \in Callers :
        Waiting(c) /\ daemon = DaemonIdle =>
            /\ api.received < MaxDgrams =>
                   \A s \in Callers : ENABLED ApiHandleRequest(<<1>>, s)
            /\ \A c2 \in Callers, dst \in DgramDests :
                   NextWorker(c2) =>
                       ENABLED ApiHandleRequest(<<0>> \o IsdAdRaw(dst), c2)

\* The first path request is still waiting and has no response, while an
\* address request and a later path request, for a destination the stores
\* could answer, have got theirs.
C21_Witness ==
    /\ call[1].pc = "wait_ud"
    /\ call[1].responses = 0
    /\ call[2].pc = "replied"
    /\ call[2].responses = 1
    /\ call[2].payload # <<>>
    /\ \E k \in 1..Len(api.out) : api.out[k].payload = AddrPack

\* ------------------------------------------------------------------ C22
\* C22: the handling of an address request (first byte 1) sends exactly one
\* datagram, to the sender of the request, with the packed address of the
\* daemon; it submits nothing to the coordinator, sends no PathRequest,
\* touches no worker and leaves the three segment stores as they are.
C22_AddressRequest ==
    [][\A s \in Callers :
           ApiHandleRequest(<<1>>, s) =>
               /\ api'.out = Append(api.out, [to |-> s, payload |-> AddrPack])
               /\ SubSeq(api'.out[Len(api'.out)].payload, 5, 8) = LocalHostAddr
               /\ UNCHANGED <<up, down, core, queue, pending, signals, sent,
                              call>>]_vars

\* The address request of client 2 was answered while the coordinator holds
\* the lookup of a worker.
C22_Witness ==
    /\ api.out = <<[to |-> 2, payload |-> AddrPack]>>
    /\ pending # {}
    /\ \E c \in Callers : Waiting(c)

\* ------------------------------------------------------------------ C23
\* C23: a local API datagram whose first byte is neither 0 nor 1 is dropped:
\* its handling sends no datagram, starts no worker, submits nothing to the
\* coordinator, sends no PathRequest and leaves the segment stores as they
\* are.
C23_UnknownDropped ==
    [][\A s \in Callers, p \in ApiPackets :
           p[1] \notin {0, 1} /\ ApiHandleRequest(p, s) =>
               /\ api'.out = api.out
               /\ \A c \in Callers : call'[c] = call[c]
               /\ UNCHANGED <<up, down, core, queue, pending, signals,
                              sent>>]_vars

\* A datagram other than a path request was handled and nothing was sent,
\* with the lookup of a worker in the coordinator's table.
C23_Witness ==
    /\ api.received = 1
    /\ api.out = <<>>
    /\ pending # {}
    /\ \E c \in Callers : Waiting(c) /\ call[c].responses = 0

\* ------------------------------------------------------------------ C24
\* C24: in every entry of every path response the port of the forwarding
\* hop is SCION_UDP_PORT in two bytes, the high byte first, whatever the byte
\* order of the host.
C24_PortBigEndian ==
    \A c \in Callers :
        \A k \in 1..Len(call[c].payload) :
            call[c].payload[k].fh_port =
                <<SCION_UDP_PORT \div 256, SCION_UDP_PORT % 256>>

\* ------------------------------------------------------------------ C25
\* C25: a get_paths call has one deadline, the time of the call plus
\* TIMEOUT: the wait on the UP_DOWN key and the wait on the CORE keys both
\* end by it, however many core segments are missing, so the call is blocked
\* for TIMEOUT at most.
C25_SingleDeadline ==
    [][\A c \in Callers :
           /\ call[c].pc = "idle" /\ call'[c].pc = "wait_ud" =>
                  call'[c].deadline = now + TIMEOUT
           /\ Waiting(c) /\ call'[c].pc \in {"wait_ud", "wait_core"} =>
                  call'[c].deadline = call[c].deadline
           /\ call'[c].pc \in {"wait_ud", "wait_core"} =>
                  now' <= call'[c].deadline]_vars

\* The first wait has used up the whole TIMEOUT, and the call now waits for
\* two core segments with nothing left.
C25_Witness ==
    \E c \in Callers :
        /\ call[c].pc = "wait_core"
        /\ Cardinality(call[c].missing) = 2
        /\ now = call[c].deadline
        /\ now = TIMEOUT

\* ------------------------------------------------------------------ C26
\* The pairs (first AD of an up segment, first AD of a down segment to dst)
\* that are two different core ADs without a core segment in the CORE store.
MissingPairs(dst) ==
    LET ups == StoreQuery(up, now, AnyAd, AnyAd)
        downs == StoreQuery(down, now, AnyAd, dst)
    IN {p \in {<<PCB[q[1]].first[2], PCB[q[2]].first[2]>> :
                  q \in ups \X downs} :
           /\ <<Local[1], p[1]>> # <<dst[1], p[2]>>
           /\ CoreFor(dst[1], {p}) = {}}

\* C26: a caller woken on its UP_DOWN key submits one wait on the key
\* (CORE, local_isd, src_core_ad, dst_isd, dst_core_ad) for every missing
\* pair, and nothing else: no request for a pair of one and the same core
\* AD, none for a pair with a core segment in the store.
C26_CoreRequests ==
    [][\A c \in Callers :
           /\ call[c].pc = "wait_ud"
           /\ call'[c].pc \in {"wait_core", "done"}
           /\ Count(signals, UdHandle(c)) > 0
           => LET dst == call[c].dst
                  want == MissingPairs(dst)
                  added == SubSeq(queue', Len(queue) + 1, Len(queue'))
              IN /\ Len(queue') = Len(queue) + Cardinality(want)
                 /\ SubSeq(queue', 1, Len(queue)) = queue
                 /\ {m.key : m \in Range(added)}
                      = {MkKey(CORE, <<Local[1], p[1]>>, <<dst[1], p[2]>>) :
                            p \in want}
                 /\ \A m \in Range(added) : m.h # NoHandle]_vars

\* The caller was woken with up segments from the core ADs 1 and 2 and a
\* down segment from the core AD 1 of ISD 2, the CORE store holding a
\* segment for the first pair only: the one request submitted is for the
\* second pair.
C26_Witness ==
    /\ call[1].pc = "wait_core"
    /\ call[1].dst = <<2, 20>>
    /\ call[1].missing = {<<2, 1>>}
    /\ 5 \in StoreIds(core)
    /\ \E k \in 1..Len(queue) : queue[k].key = <<CORE, 1, 2, 2, 1>>
    /\ \A k \in 1..Len(queue) : queue[k].key # <<CORE, 1, 1, 2, 1>>

\* ------------------------------------------------------------------ C27
\* C27: get_paths for dst combines only down segments whose last hop is
\* dst: no returned path has a down segment that ends elsewhere, and a
\* caller woken while the DOWN store holds segments for other destinations
\* only returns the empty list.
C27_DownFilter ==
    [][\A c \in Callers :
           call[c].pc \in {"wait_ud", "wait_core"} /\ call'[c].pc = "done" =>
               /\ \A k \in 1..Len(call'[c].result) :
                      call'[c].result[k].down # 0 =>
                          PCB[call'[c].result[k].down].last = call[c].dst
               /\ /\ call[c].pc = "wait_ud"
                  /\ Count(signals, UdHandle(c)) > 0
                  /\ StoreQuery(down, now, AnyAd, AnyAd) # {}
                  /\ StoreQuery(down, now, AnyAd, call[c].dst) = {}
                  => call'[c].result = <<>>]_vars

\* The caller asked for (2,20) and was woken, with an up segment in the UP
\* store and, in the DOWN store, only a segment that ends in (1,20): it
\* returned no path.
C27_Witness ==
    /\ call[1].pc = "done"
    /\ call[1].dst = <<2, 20>>
    /\ call[1].result = <<>>
    /\ Count(signals, UdHandle(1)) > 0
    /\ StoreIds(Live(up, now)) # {}
    /\ StoreIds(Live(down, now)) = {4}

C29_UpDownPartition ==
    [][\A r \in Replies :
           /\ r.info[1] = UP_DOWN
           /\ daemon = DaemonIdle
           /\ daemon' = InReply(r.info, r.pcbs)
           => /\ \A k \in 1..Len(r.pcbs) :
                     /\ <<r.pcbs[k], now>> \in up'
                            <=> PCB[r.pcbs[k]].last = Local
                     /\ <<r.pcbs[k], now>> \in down'
                            <=> PCB[r.pcbs[k]].last # Local
              /\ core' = core]_vars

\* An UP_DOWN reply with the PCBs 1, 2 (ending in the local AD) and 3
\* (ending in (2,20)) was handled: 1 and 2 are in the UP store only, 3 in
\* the DOWN store only.
C29_Witness ==
    /\ daemon.pc = "reply"
    /\ daemon.info[1] = UP_DOWN
    /\ daemon.pcbs = <<1, 2, 3>>
    /\ StoreIds(up) = {1, 2}
    /\ StoreIds(down) = {3}
    /\ core = {}

\* ------------------------------------------------------------------ C30
\* C30: a wake handle attached to the pending entry of a key is set only
\* when the coordinator takes a fulfilment of exactly that key; the key of a
\* path reply with another class or another destination wakes no waiter of
\* the UP_DOWN key, and a get_paths caller that was not woken returns the
\* empty list at its deadline even when the stores by then hold an up and a
\* down segment for its destination.
C30_ExactKeyWake ==
    [][/\ \A e \in pending :
              \A k \in 1..Len(e.waiters) :
                  Count(signals', e.waiters[k]) > Count(signals, e.waiters[k])
                      => /\ queue # <<>>
                         /\ Head(queue) = Msg(e.key, NoHandle)
       /\ \A c \in Callers :
              /\ call[c].pc = "wait_ud"
              /\ Count(signals, UdHandle(c)) = 0
              /\ CheckSegments(UdKey(call[c].dst), Stores(up, down, core), now)
              /\ call'[c] # call[c]
              => /\ now >= call[c].deadline
                 /\ call'[c].pc = "done"
                 /\ call'[c].result = <<>>]_vars

\* The caller waited on the UP_DOWN key of (2,20); a reply of class UP and
\* a reply of class DOWN for the same destination were handled and their
\* keys fulfilled, leaving an up and a down segment in the stores; the
\* caller was not woken and returned the empty list at its deadline.
C30_Witness ==
    /\ call[1].pc = "done"
    /\ call[1].dst = Remote
    /\ call[1].result = <<>>
    /\ now = call[1].deadline
    /\ Count(signals, UdHandle(1)) = 0
    /\ replies = 2
    /\ queue = <<>>
    /\ daemon = DaemonIdle
    /\ StoreIds(up) = {1}
    /\ StoreIds(down) = {3}
    /\ CheckSegments(UdKey(Remote), Stores(up, down, core), now)

\* ------------------------------------------------------------------ C31
\* C31, as stated: a wait submission for an UP_DOWN key that the coordinator
\* takes while the stores satisfy the check for the key wakes its handle in
\* that step, whether or not the key has a pending entry.
C31_CheckOnSubmit ==
    [][(/\ CoordTakes
        /\ Head(queue).h # NoHandle
        /\ Head(queue).key[1] = UP_DOWN
        /\ CheckSegments(Head(queue).key, Stores(up, down, core), now))
          => Count(signals', Head(queue).h) > Count(signals, Head(queue).h)
      ]_vars

\* C31, amended: such a submission wakes its handle in that step, without a
\* PathRequest, when the key has no pending entry; when the key has one the
\* handle is attached to it and is not woken, since the check is asked only
\* when an entry is created.
C31_CheckOnCreate ==
    [][(/\ CoordTakes
        /\ Head(queue).h # NoHandle
        /\ Head(queue).key[1] = UP_DOWN
        /\ CheckSegments(Head(queue).key, Stores(up, down, core), now))
          => IF LiveEntries(Head(queue).key) = {}
             THEN /\ Count(signals', Head(queue).h)
                       = Count(signals, Head(queue).h) + 1
                  /\ sent' = sent
             ELSE /\ signals' = signals
                  /\ sent' = sent
                  /\ \E e \in pending' :
                         /\ e.key = Head(queue).key
                         /\ Head(queue).h \in Range(e.waiters)
      ]_vars

\* The second caller submitted the key of (2,20) after a reply of class UP
\* and one of class DOWN had filled the stores, while the entry of the first
\* caller was pending: it was attached to the entry and is not woken.
C31_Witness ==
    /\ CheckSegments(UdKey(Remote), Stores(up, down, core), now)
    /\ call[1].pc = "wait_ud"
    /\ call[2].pc = "wait_ud"
    /\ call[2].dst = Remote
    /\ queue = <<>>
    /\ daemon = DaemonIdle
    /\ StoreIds(up) = {1}
    /\ StoreIds(down) = {3}
    /\ \E e \in pending :
           /\ e.key = UdKey(Remote)
           /\ e.waiters = <<UdHandle(1), UdHandle(2)>>
    /\ Count(signals, UdHandle(2)) = 0

\* ------------------------------------------------------------------ C32
\* C32: a path reply whose key has no pending entry any more, every waiter
\* having timed out, is handled like any other: its accepted PCBs are in
\* their stores with the time of the reply, no pending entry is created and
\* no PathRequest is sent, neither by the handler nor when the coordinator
\* takes the fulfilment; a later wait submission for the UP_DOWN key that
\* these segments satisfy is woken from the stores, without a PathRequest.
C32_LateReply ==
    [][/\ \A r \in Replies :
              /\ daemon = DaemonIdle
              /\ daemon' = InReply(r.info, r.pcbs)
              /\ LiveEntries(r.info) = {}
              => /\ \A id \in Range(r.pcbs) :
                        /\ (r.info[1] \in {UP, UP_DOWN} /\ PCB[id].last = Local)
                               => <<id, now>> \in up'
                        /\ (r.info[1] \in {DOWN, UP_DOWN} /\ PCB[id].last # Local)
                               => <<id, now>> \in down'
                        /\ r.info[1] = CORE => <<id, now>> \in core'
                 /\ pending' = pending
                 /\ sent' = sent
       /\ (/\ CoordTakes
           /\ Head(queue).h = NoHandle
           /\ LiveEntries(Head(queue).key) = {})
              => /\ signals' = signals
                 /\ sent' = sent
                 /\ EntriesOf(pending', Head(queue).key) = {}
       /\ \A c \in Callers :
              (/\ CoordTakes
               /\ Head(queue) = Msg(UdKey(call[c].dst), UdHandle(c))
               /\ Count(sent, UdKey(call[c].dst)) > 0
               /\ LiveEntries(Head(queue).key) = {}
               /\ CheckSegments(Head(queue).key, Stores(up, down, core), now))
                  => /\ sent' = sent
                     /\ Count(signals', UdHandle(c)) = 1
      ]_vars

\* The first caller asked for (2,20) and timed out with the empty list; the
\* reply to its PathRequest came at its deadline or later and filled the
\* stores; the second caller asked for (2,20) afterwards and was woken, and
\* still only the one PathRequest for the key was sent.
C32_Witness ==
    /\ topoHasPS
    /\ call[1].pc = "done"
    /\ call[1].dst = Remote
    /\ call[1].result = <<>>
    /\ Count(signals, UdHandle(1)) = 0
    /\ StoreIds(up) = {1, 2}
    /\ StoreIds(down) = {3}
    /\ \A e \in up \cup down : e[2] >= call[1].deadline
    /\ call[2].dst = Remote
    /\ call[2].pc \in {"wait_core", "done"}
    /\ Count(signals, UdHandle(2)) = 1
    /\ Count(sent, UdKey(Remote)) = 1
    /\ daemon = DaemonIdle

\* ------------------------------------------------------------------ C33
\* The core ADs: the first hops of the segments.
CoreAds == {PCB[id].first : id \in PcbIds}

\* C33: on every state of the stores, and for every pair of two different
\* core ADs, the first of the local ISD, _check_segments accepts the CORE
\* key of the pair exactly when _find_core_segs does not report the pair
\* missing.
C33_CoreCheckAgrees ==
    \A src \in {a \in CoreAds : a[1] = Local[1]}, dst \in CoreAds :
        src # dst =>
            (CheckSegments(MkKey(CORE, src, dst), Stores(up, down, core), now)
             <=> <<src[2], dst[2]>> \notin
                     FindCoreSegs(Local[1], dst[1], {<<src[2], dst[2]>>},
                                  core, now).missing)

\* The core segment for the pair of (1,1) and (2,1) came before the
\* coordinator took the caller's CORE request for the pair: the check woke
\* the caller, no PathRequest was sent for the key, and the lookup after
\* the wait found the segment, which is on a returned path.
C33_Witness ==
    /\ topoHasPS
    /\ call[1].pc = "done"
    /\ call[1].dst = Remote
    /\ Count(signals, CoreHandle(1, <<1, 1>>)) = 1
    /\ Count(sent, <<CORE, 1, 1, 2, 1>>) = 0
    /\ CheckSegments(<<CORE, 1, 1, 2, 1>>, Stores(up, down, core), now)
    /\ \E k \in 1..Len(call[1].result) : call[1].result[k].core = 5

====
